---- MODULE Spec2Model ----
(***************************************************************************)
(* A model of decaf/scripts/jeffnet.py: the JeffNet wrapper that loads a   *)
(* pickled network and its meta data, normalises an image to 256x256x3,    *)
(* oversamples it into 227x227 crops, averages the predictor's scores and  *)
(* ranks them.                                                             *)
(*                                                                         *)
(* Arrays are modelled by what numpy's basic slicing does to them: an      *)
(* array derived from a base array by slicing, reversing and tiling is the *)
(* triple of index maps (rows, cols, chan) into the base array, so that    *)
(* its pixel (r, c, ch) is base[rows(r), cols(c), chan[ch]].  A row or     *)
(* column map is kept the way numpy keeps a view, as [start, len, step]:   *)
(* index r of the axis is index start + r * step of the base.  On a base   *)
(* image whose pixels are pairwise distinct two derived arrays are equal   *)
(* exactly when their index maps are equal, so equality of index maps is   *)
(* pixel-for-pixel equality for every image.                               *)
(*                                                                         *)
(* Scores are float32 values: <<m, e>> stands for m * 2^e with             *)
(* 2^23 <= m < 2^24 (or <<0, 0>> for zero), and the sum and the division   *)
(* of numpy's mean round to nearest, ties to even.                         *)
(***************************************************************************)
EXTENDS Integers, Sequences, FiniteSets, TLC

\* ---------------------------------------------------------------- bounds

\* Input images have 1..MaxDim rows and 1..MaxDim columns.
MaxDim == 5

\* The number of classes of the network (1000 for the shipped files): the
\* length of label_names and of every score vector.
NumClasses == 3

\* top_k_prediction is called with k in -KSlack .. NumClasses + KSlack.
KSlack == 3

\* ------------------------------------------------------ program constants

INPUT_DIM == 227

\* The side of the canonical image (the literal 256 of the source).
IMAGE_DIM == 256

JEFFNET_FLIP == TRUE

\* float32: 24 bits of mantissa.
MANT_BITS == 24

JEFFNET_FILE == "imagenet.jeffnet.epoch72"

META_FILE == "imagenet.jeffnet.meta"

\* ---------------------------------------------------------------- helpers

Range(s) == {s[i] : i \in DOMAIN s}

Reverse(s) == [i \in 1..Len(s) |-> s[Len(s) + 1 - i]]

Min(a, b) == IF a < b THEN a ELSE b

Max(a, b) == IF a < b THEN b ELSE a

\* <<0, 1, ..., n-1>>
Iota(n) == [i \in 1..n |-> i - 1]

\* The axis of a fresh array of n rows (or columns): its own indices.
Arange(n) == [start |-> 0, len |-> n, step |-> 1]

\* The base index behind index r (from 0) of an axis.
Index(axis, r) == axis.start + r * axis.step

\* Python's s[start:stop] (step 1) on a sequence of length n: a negative
\* bound counts from the end, and both bounds are clamped to 0..n.
PyBound(n, b) == IF b < 0 THEN Max(n + b, 0) ELSE Min(b, n)

PySlice(s, start, stop) ==
    LET lo == PyBound(Len(s), start)
        hi == PyBound(Len(s), stop)
    IN  IF hi <= lo THEN <<>> ELSE [i \in 1..(hi - lo) |-> s[lo + i]]

\* The same slice of an axis.
SliceAxis(axis, start, stop) ==
    LET lo == PyBound(axis.len, start)
        hi == PyBound(axis.len, stop)
    IN  [start |-> Index(axis, lo), len |-> Max(hi - lo, 0), step |-> axis.step]

\* axis[::-1]
ReverseAxis(axis) ==
    [start |-> Index(axis, Max(axis.len - 1, 0)), len |-> axis.len,
     step |-> 0 - axis.step]

\* Python's s[:stop:-1]: from the last element down to, and without, the
\* element at index stop (0-based); a negative stop counts from the end and
\* one still negative means "down to the first element".
PyRevSliceTo(s, stop) ==
    LET n  == Len(s)
        st == IF stop < 0
                THEN (IF n + stop < 0 THEN -1 ELSE n + stop)
                ELSE (IF stop >= n THEN n - 1 ELSE stop)
        cnt == Max(n - 1 - st, 0)
    IN  [i \in 1..cnt |-> s[n + 1 - i]]

\* int(a * float(256) / b + 0.5) for positive integers a, b: the quotient is
\* a rational whose distance to a half-integer is 0 or at least 1/(2b), so
\* the floating-point evaluation equals the exact floor((2*a*256 + b)/(2b)).
ScaledDim(a, b) == (2 * a * IMAGE_DIM + b) \div (2 * b)

\* ---------------------------------------------------------------- float32

Pow2(n) == 2 ^ n

FZero == <<0, 0>>

\* The float32 nearest to num/den * 2^e (num, den > 0), ties to even.
RECURSIVE FRound(_, _, _)
FRound(num, den, e) ==
    IF num >= Pow2(MANT_BITS) * den THEN FRound(num, 2 * den, e + 1)
    ELSE IF num < Pow2(MANT_BITS - 1) * den THEN FRound(2 * num, den, e - 1)
    ELSE LET q  == num \div den
             r  == num % den
             up == (2 * r > den) \/ (2 * r = den /\ q % 2 = 1)
             m  == IF up THEN q + 1 ELSE q
         IN  IF m = Pow2(MANT_BITS) THEN <<Pow2(MANT_BITS - 1), e + 1>>
             ELSE <<m, e>>

\* a + b in float32.
FAdd(a, b) ==
    IF a = FZero THEN b
    ELSE IF b = FZero THEN a
    ELSE LET e == Min(a[2], b[2])
         IN  FRound(a[1] * Pow2(a[2] - e) + b[1] * Pow2(b[2] - e), 1, e)

\* a / n in float32, n a positive integer.
FDivInt(a, n) == IF a = FZero THEN FZero ELSE FRound(a[1], n, a[2])

\* a < b on float32 values >= 0.
FLess(a, b) ==
    IF a = FZero THEN b # FZero
    ELSE IF b = FZero THEN FALSE
    ELSE a[2] < b[2] \/ (a[2] = b[2] /\ a[1] < b[1])

FLeq(a, b) == a = b \/ FLess(a, b)

\* ------------------------------------------------------------ environment

\* The files a caller can name.  A file is missing (open raises IOError),
\* corrupt (pickle.load raises an unpickling error), or unpickles to an
\* object: a network, or a meta dictionary with the keys it holds.
NoObject == [net |-> "None", keys |-> {}, label_names |-> <<>>, data_mean |-> "None"]

Unpickled(net, keys, names, mean) ==
    [net |-> net, keys |-> keys, label_names |-> names, data_mean |-> mean]

LabelsOf(prefix) == [i \in 1..NumClasses |-> <<prefix, i>>]

FileSystem(path) ==
    CASE path = JEFFNET_FILE ->
           [status |-> "ok", obj |-> Unpickled("jeffnet", {}, <<>>, "None")]
      [] path = META_FILE ->
           [status |-> "ok",
            obj |-> Unpickled("None", {"label_names", "data_mean"},
                              LabelsOf("synset"), "mean")]
      [] path = "alt.meta" ->
           [status |-> "ok",
            obj |-> Unpickled("None", {"label_names", "data_mean"},
                              LabelsOf("alt"), "altmean")]
      [] path = "nomean.meta" ->
           [status |-> "ok",
            obj |-> Unpickled("None", {"label_names"}, LabelsOf("alt"), "None")]
      [] path \in {"corrupt.net", "corrupt.meta"} ->
           [status |-> "corrupt", obj |-> NoObject]
      [] OTHER -> [status |-> "missing", obj |-> NoObject]

\* "" is the argument left at its default (None).
NetArgs == {"", "missing.net", "corrupt.net"}

MetaArgs == {"", "alt.meta", "nomean.meta", "missing.meta", "corrupt.meta"}

Unreadable(path) == FileSystem(path).status # "ok"

\* The exceptions an unpickling of corrupt data ends with.
UnpicklingErrors == {"UnpicklingError", "EOFError"}

\* An input image: height x width, 2-D (grayscale) or 3-D with ch channels.
InputImages ==
    {[h |-> h, w |-> w, ndim |-> d[1], ch |-> d[2]] :
        h \in 1..MaxDim, w \in 1..MaxDim,
        d \in {<<2, 0>>, <<3, 1>>, <<3, 3>>, <<3, 4>>}}

\* 0.1, 0.25 and 0.7 as float32.
ScoreVals == {<<13421773, -27>>, <<8388608, -25>>, <<11744051, -24>>}

ScoreVecs == [1..NumClasses -> ScoreVals]

\* What the predictor may return for a batch of n crops: one score vector
\* per crop, the first five crops scored p[1] and the others p[2].
PredictorOutputs(n) ==
    {[c \in 1..n |-> IF c <= 5 THEN p[1] ELSE p[2]] :
        p \in {<<v, v>> : v \in ScoreVecs} \cup
              {<<v, Reverse(v)>> : v \in ScoreVecs}}

\* ------------------------------------------------------------------ state

VARIABLES
    args,         \* <<net_file, meta_file>> as the constructor was called
    pc,           \* "start", "failed" (the constructor raised), "idle" (a
                  \* JeffNet exists, no call is running), "ranked" (the
                  \* caller holds a ranking), or the statement of
                  \* classify that runs next
    net,          \* self._net: the translated network, "None" before
    label_names,  \* self.label_names, <<>> before
    data_mean,    \* self._data_mean: [id, shape], id "None" before
    error,        \* the exception the last call raised, "None" if none
    input,        \* classify's argument as the caller passed it
    center_only,  \* classify's argument center_only
    image,        \* classify's local image
    newshape,     \* classify's local newshape
    images,       \* classify's local images: the batch of crops
    predictions,  \* classify's local predictions
    npredict,     \* how often the running call has invoked the predictor
    scores,       \* the caller's scores: what classify returned last
    k,            \* top_k_prediction's argument of the last call
    topk          \* what top_k_prediction returned last

vars == <<args, pc, net, label_names, data_mean, error, input, center_only, image,
          newshape, images, predictions, npredict, scores, k, topk>>

NoMean == [id |-> "None", shape |-> <<>>]

NoInput == [h |-> 0, w |-> 0, ndim |-> 0, ch |-> 0]

NoImage == [rows |-> Arange(0), cols |-> Arange(0), chan |-> <<>>, ndim |-> 0,
            scale |-> "None", sub |-> "None"]

NoTopK == [called |-> FALSE, indices |-> <<>>, names |-> <<>>]

\* The array a caller passes: its own base, uint8.
InputArray(in) ==
    [rows |-> Arange(in.h), cols |-> Arange(in.w),
     chan |-> IF in.ndim = 2 THEN <<0>> ELSE Iota(in.ch),
     ndim |-> in.ndim, scale |-> "uint8", sub |-> "None"]

Shape(a) == <<a.rows.len, a.cols.len, Len(a.chan)>>

Init ==
    /\ args = <<"", "">>
    /\ pc = "start"
    /\ net = "None"
    /\ label_names = <<>>
    /\ data_mean = NoMean
    /\ error = "None"
    /\ input = NoInput
    /\ center_only = FALSE
    /\ image = NoImage
    /\ newshape = <<>>
    /\ images = <<>>
    /\ predictions = <<>>
    /\ npredict = 0
    /\ scores = <<>>
    /\ k = 0
    /\ topk = NoTopK

Locals == <<input, center_only, image, newshape, images, predictions, npredict>>

Results == <<scores, k, topk>>

Model == <<net, label_names, data_mean>>

\* ------------------------------------------------------------ JeffNet()

\* translator.img_cudaconv_to_decaf(meta['data_mean'], 256, 3)
ToDecaf(mean) == [id |-> mean, shape |-> <<IMAGE_DIM, IMAGE_DIM, 3>>]

\* A slip: only the network file is read inside the try block.
LoadErrorsNetOnly(net_path, meta_path) ==
    LET n == FileSystem(net_path).status
    IN  IF n = "missing" THEN {"RuntimeError"}
        ELSE IF n = "corrupt" THEN UnpicklingErrors
        ELSE {"None"}

\* The exception the try block (lines 38-48) ends with for the two paths,
\* "None" if both files are read: the network is opened and unpickled
\* first; an IOError becomes a RuntimeError, anything else propagates.
LoadErrors(net_path, meta_path) ==
    LET n == FileSystem(net_path).status
        m == FileSystem(meta_path).status
    IN  IF n = "missing" THEN {"RuntimeError"}
        ELSE IF n = "corrupt" THEN UnpicklingErrors
        ELSE IF m = "missing" THEN {"RuntimeError"}
        ELSE IF m = "corrupt" THEN UnpicklingErrors
        ELSE {"None"}

\* __init__(net_file, meta_file)
Construct(net_file, meta_file) ==
    /\ pc = "start"
    /\ args' = <<net_file, meta_file>>
    /\ LET net_path  == IF net_file = "" THEN JEFFNET_FILE ELSE net_file
           meta_path == IF meta_file = "" THEN META_FILE ELSE meta_file
           meta      == FileSystem(meta_path).obj
       IN  \E err \in LoadErrors(net_path, meta_path) :
             IF err # "None"
               THEN /\ error' = err
                    /\ pc' = "failed"
                    /\ UNCHANGED Model
               ELSE /\ net' = FileSystem(net_path).obj.net
                    /\ IF "label_names" \in meta.keys
                         THEN label_names' = meta.label_names
                         ELSE label_names' = label_names
                    /\ IF {"label_names", "data_mean"} \subseteq meta.keys
                         THEN /\ data_mean' = ToDecaf(meta.data_mean)
                              /\ error' = "None"
                              /\ pc' = "idle"
                         ELSE /\ data_mean' = data_mean
                              /\ error' = "KeyError"
                              /\ pc' = "failed"
    /\ UNCHANGED <<Locals, Results>>

\* ------------------------------------------------------------- classify

\* A slip: the center crop taken before the flip.
SuccessorCropFirst(stage) ==
    CASE stage = "channels" -> "resize"
      [] stage = "resize" -> "rescale"
      [] stage = "rescale" -> "crop"
      [] stage = "crop" -> "flip"
      [] stage = "flip" -> "mean"
      [] stage = "mean" -> "oversample"
      [] stage = "oversample" -> "predict"
      [] OTHER -> "aggregate"

\* The statements of classify in the order the code runs them; pc names
\* the one that runs next.
CodeOrder == <<"channels", "resize", "rescale", "flip", "crop", "mean",
               "oversample", "predict", "aggregate">>

Position(stage) == CHOOSE i \in 1..Len(CodeOrder) : CodeOrder[i] = stage

Successor(stage) == CodeOrder[Position(stage) + 1]

\* Lines 116-120: a 2-D image is tiled to three channels, a 4-channel one
\* keeps its first three.
FixChannels(a) ==
    IF a.ndim = 2
      THEN [a EXCEPT !.chan = a.chan \o a.chan \o a.chan, !.ndim = 3]
      ELSE IF Len(a.chan) = 4
             THEN [a EXCEPT !.chan = PySlice(a.chan, 0, 3)]
             ELSE a

\* A slip: the comparison turned round, so the longer side becomes 256.
NewShapeLongSide(height, width) ==
    IF height > width
      THEN <<IMAGE_DIM, ScaledDim(width, height)>>
      ELSE <<ScaledDim(height, width), IMAGE_DIM>>

\* Lines 123-126.
NewShape(height, width) ==
    IF height < width
      THEN <<IMAGE_DIM, ScaledDim(width, height)>>
      ELSE <<ScaledDim(height, width), IMAGE_DIM>>

\* transform.resize(image, newshape): a new array of that shape, channel by
\* channel, with values in [0, 1).
Resized(a, shape) ==
    [rows |-> Arange(shape[1]), cols |-> Arange(shape[2]), chan |-> a.chan,
     ndim |-> 3, scale |-> "unit", sub |-> "None"]

\* a[::-1, :]
FlipRows(a) == [a EXCEPT !.rows = ReverseAxis(a.rows)]

\* Lines 134-136: Python 2's / on integers is floor division.
CenterCrop(a) ==
    LET h_offset == (a.rows.len - IMAGE_DIM) \div 2
        w_offset == (a.cols.len - IMAGE_DIM) \div 2
    IN  [a EXCEPT !.rows = SliceAxis(a.rows, h_offset, h_offset + IMAGE_DIM),
                  !.cols = SliceAxis(a.cols, w_offset, w_offset + IMAGE_DIM)]

\* a -= b works in place: b must broadcast to a's shape.
BroadcastsTo(bshape, ashape) ==
    /\ Len(bshape) = Len(ashape)
    /\ \A i \in 1..Len(ashape) : bshape[i] \in {1, ashape[i]}

\* A slip: the offsets applied to the wrong axes.
WindowTransposed(a, i, j) ==
    [a EXCEPT !.rows = SliceAxis(a.rows, j, j + INPUT_DIM),
              !.cols = SliceAxis(a.cols, i, i + INPUT_DIM)]

\* image[i:i + INPUT_DIM, j:j + INPUT_DIM]
Window(a, i, j) ==
    [a EXCEPT !.rows = SliceAxis(a.rows, i, i + INPUT_DIM),
              !.cols = SliceAxis(a.cols, j, j + INPUT_DIM)]

\* images[:5, ::-1]: the second axis of the batch, the crops' first, reversed.
FlipCrop(a) == [a EXCEPT !.rows = ReverseAxis(a.rows)]

\* A slip: the center offset not halved.
oversampleNotHalved(a, center) ==
    LET indices == <<0, IMAGE_DIM - INPUT_DIM>>
        mid     == indices[2]
        plain   == <<Window(a, indices[1], indices[1]),
                     Window(a, indices[1], indices[2]),
                     Window(a, indices[2], indices[1]),
                     Window(a, indices[2], indices[2]),
                     Window(a, mid, mid)>>
    IN  IF center
          THEN <<Window(a, mid, mid)>>
          ELSE plain \o [n \in 1..5 |-> FlipCrop(plain[n])]

\* oversample(image, center_only), lines 85-104.
oversample(a, center) ==
    LET indices == <<0, IMAGE_DIM - INPUT_DIM>>
        mid     == indices[2] \div 2
        plain   == <<Window(a, indices[1], indices[1]),
                     Window(a, indices[1], indices[2]),
                     Window(a, indices[2], indices[1]),
                     Window(a, indices[2], indices[2]),
                     Window(a, mid, mid)>>
    IN  IF center
          THEN <<Window(a, mid, mid)>>
          ELSE plain \o [n \in 1..5 |-> FlipCrop(plain[n])]

\* The float32 sum of column j of a batch, row after row.
RECURSIVE ColumnSum(_, _, _)
ColumnSum(batch, j, n) ==
    IF n = 1 THEN batch[1][j]
    ELSE FAdd(ColumnSum(batch, j, n - 1), batch[n][j])

\* The float32 sum of row n of a batch, entry after entry.
RECURSIVE RowSum(_, _, _)
RowSum(batch, n, j) ==
    IF j = 1 THEN batch[n][1]
    ELSE FAdd(RowSum(batch, n, j - 1), batch[n][j])

\* A slip: predictions.mean(1), the mean taken along the wrong axis.
Mean1(batch) ==
    [n \in 1..Len(batch) |->
        FDivInt(RowSum(batch, n, Len(batch[n])), Len(batch[n]))]

\* predictions.mean(0)
Mean0(batch) ==
    [j \in 1..Len(batch[1]) |->
        FDivInt(ColumnSum(batch, j, Len(batch)), Len(batch))]

\* classify(image, center_only) is called; lines 116-120 run.
ClassifyCall(in, center) ==
    /\ pc = "idle"
    /\ input' = in
    /\ center_only' = center
    /\ image' = FixChannels(InputArray(in))
    /\ newshape' = <<>>
    /\ images' = <<>>
    /\ predictions' = <<>>
    /\ npredict' = 0
    /\ error' = "None"
    /\ scores' = <<>>
    /\ k' = 0
    /\ topk' = NoTopK
    /\ pc' = Successor("channels")
    /\ UNCHANGED <<args, Model>>

\* Lines 122-127.
Resize ==
    /\ pc = "resize"
    /\ newshape' = NewShape(image.rows.len, image.cols.len)
    /\ image' = Resized(image, newshape')
    /\ pc' = Successor(pc)
    /\ UNCHANGED <<args, Model, error, input, center_only, images, predictions,
                   npredict, Results>>

\* Line 130.
Rescale ==
    /\ pc = "rescale"
    /\ image' = [image EXCEPT !.scale = "byte"]
    /\ pc' = Successor(pc)
    /\ UNCHANGED <<args, Model, error, input, center_only, newshape, images,
                   predictions, npredict, Results>>

\* Lines 131-133.
Flip ==
    /\ pc = "flip"
    /\ image' = IF JEFFNET_FLIP THEN FlipRows(image) ELSE image
    /\ pc' = Successor(pc)
    /\ UNCHANGED <<args, Model, error, input, center_only, newshape, images,
                   predictions, npredict, Results>>

\* Lines 134-136.
Crop ==
    /\ pc = "crop"
    /\ image' = CenterCrop(image)
    /\ pc' = Successor(pc)
    /\ UNCHANGED <<args, Model, error, input, center_only, newshape, images,
                   predictions, npredict, Results>>

\* A slip: self._data_mean -= image, the operands the other way round.
SubtractMeanSwapped ==
    /\ pc = "mean"
    /\ IF BroadcastsTo(Shape(image), data_mean.shape)
         THEN /\ data_mean' = [data_mean EXCEPT !.id = "modified"]
              /\ pc' = Successor(pc)
              /\ UNCHANGED <<error, input, center_only, newshape, image>>
         ELSE /\ error' = "ValueError"
              /\ pc' = "idle"
              /\ input' = NoInput
              /\ center_only' = FALSE
              /\ image' = NoImage
              /\ newshape' = <<>>
              /\ data_mean' = data_mean
    /\ UNCHANGED <<args, net, label_names, images, predictions, npredict,
                   Results>>

\* Line 138: image -= self._data_mean, or a ValueError out of classify.
SubtractMean ==
    /\ pc = "mean"
    /\ IF BroadcastsTo(data_mean.shape, Shape(image))
         THEN /\ image' = [image EXCEPT !.sub = data_mean.id]
              /\ pc' = Successor(pc)
              /\ UNCHANGED <<error, input, center_only, newshape>>
         ELSE /\ error' = "ValueError"
              /\ pc' = "idle"
              /\ input' = NoInput
              /\ center_only' = FALSE
              /\ image' = NoImage
              /\ newshape' = <<>>
    /\ UNCHANGED <<args, Model, images, predictions, npredict, Results>>

\* Line 140.
Oversample ==
    /\ pc = "oversample"
    /\ images' = oversample(image, center_only)
    /\ pc' = Successor(pc)
    /\ UNCHANGED <<args, Model, error, input, center_only, image, newshape,
                   predictions, npredict, Results>>

\* Line 141: classify_direct(images), the predictor's answer any batch of
\* one score vector per crop.
ClassifyDirect ==
    /\ pc = "predict"
    /\ \E out \in PredictorOutputs(Len(images)) : predictions' = out
    /\ npredict' = npredict + 1
    /\ pc' = Successor(pc)
    /\ UNCHANGED <<args, Model, error, input, center_only, image, newshape, images,
                   Results>>

\* Line 142: classify returns the mean and its locals are gone.
Aggregate ==
    /\ pc = "aggregate"
    /\ scores' = Mean0(predictions)
    /\ pc' = "idle"
    /\ input' = NoInput
    /\ center_only' = FALSE
    /\ image' = NoImage
    /\ newshape' = <<>>
    /\ images' = <<>>
    /\ predictions' = <<>>
    /\ npredict' = 0
    /\ UNCHANGED <<args, Model, error, k, topk>>

\* ----------------------------------------------------- top_k_prediction

IndexOrders(n) ==
    {p \in [1..n -> 0..(n - 1)] : \A i, j \in 1..n : i # j => p[i] # p[j]}

\* The orders of the class indices 0 .. NumClasses-1.
ClassOrders == IndexOrders(NumClasses)

\* scores.argsort(): the sort is not stable, so any order of the indices
\* that puts the scores in ascending order.
ArgSorts(v) ==
    {p \in ClassOrders :
        \A i \in 1..(Len(v) - 1) : FLeq(v[p[i] + 1], v[p[i + 1] + 1])}

\* A slip: indices[:k], the k lowest scores.
FirstK(indices, kk) == PySlice(indices, 0, kk)

\* A slip: indices[:-k:-1], one index short.
LastReversedShort(indices, kk) == PyRevSliceTo(indices, 0 - kk)

\* indices[:-(k+1):-1]
LastReversed(indices, kk) == PyRevSliceTo(indices, -(kk + 1))

\* Lines 154-156.
TopK(kk) ==
    /\ pc = "idle"
    /\ scores # <<>>
    /\ \E indices \in ArgSorts(scores) :
         LET top == LastReversed(indices, kk)
         IN  topk' = [called |-> TRUE, indices |-> top,
                      names |-> [i \in 1..Len(top) |-> label_names[top[i] + 1]]]
    /\ k' = kk
    /\ error' = "None"
    /\ pc' = "ranked"
    /\ UNCHANGED <<args, Model, Locals, scores>>

\* The caller is done with the ranking (main, line 166, prints it).
Printed ==
    /\ pc = "ranked"
    /\ pc' = "idle"
    /\ k' = 0
    /\ topk' = NoTopK
    /\ UNCHANGED <<args, Model, Locals, error, scores>>

\* ------------------------------------------------------------------ Next

Next ==
    \/ \E net_file \in NetArgs, meta_file \in MetaArgs :
         Construct(net_file, meta_file)
    \/ \E in \in InputImages, center \in BOOLEAN : ClassifyCall(in, center)
    \/ Resize
    \/ Rescale
    \/ Flip
    \/ Crop
    \/ SubtractMean
    \/ Oversample
    \/ ClassifyDirect
    \/ Aggregate
    \/ \E kk \in (0 - KSlack)..(NumClasses + KSlack) : TopK(kk)
    \/ Printed

Spec == Init /\ [][Next]_vars

\* ----------------------------------------------------------- properties

InRange(kk) == 1 <= kk /\ kk <= NumClasses

Score(c) == scores[c + 1]

\* ind lists distinct class indices in descending score order, and no
\* class it leaves out scores higher than one it lists.
IsTopRanking(ind) ==
    /\ \A i \in 1..Len(ind) : ind[i] \in 0..(NumClasses - 1)
    /\ \A i, j \in 1..Len(ind) : i # j => ind[i] # ind[j]
    /\ \A i \in 1..(Len(ind) - 1) : FLeq(Score(ind[i + 1]), Score(ind[i]))
    /\ \A i \in 1..Len(ind) : \A c \in 0..(NumClasses - 1) :
         c \notin Range(ind) => FLeq(Score(c), Score(ind[i]))

NamesMatch(r) ==
    /\ Len(r.names) = Len(r.indices)
    /\ \A i \in 1..Len(r.indices) : r.names[i] = label_names[r.indices[i] + 1]

\* C1: for every k with 1 <= k <= number of classes top_k_prediction
\* returns exactly k distinct indices in descending score order, none of
\* them scoring lower than an index left out, and names[i] is
\* label_names[indices[i]] at every position.
C1_TopKRanking ==
    (pc = "ranked" /\ InRange(k)) =>
        /\ Len(topk.indices) = k
        /\ IsTopRanking(topk.indices)
        /\ NamesMatch(topk)

\* A ranking of some but not all classes, of scores that are not all equal.
C1_Witness ==
    /\ pc = "ranked"
    /\ 1 < k /\ k < NumClasses
    /\ \E c, d \in 0..(NumClasses - 1) : Score(c) # Score(d)

\* C2 as claimed: a call with k outside 1 .. number of classes fails with
\* an OutOfRangeError instead of returning a result.
C2_OutOfRangeRaises ==
    (pc = "ranked" /\ ~InRange(k)) => error = "OutOfRangeError"

\* C2 as the code has it: top_k_prediction checks no range and raises
\* nothing.  k = 0 returns no index and no name, k above the number n of
\* classes returns all n classes in descending score order, and a negative
\* k returns the max(n + k, 0) highest.
C2_NoRangeCheck ==
    (pc = "ranked" /\ ~InRange(k)) =>
        /\ error = "None"
        /\ Len(topk.indices) =
             (IF k > NumClasses THEN NumClasses ELSE
              IF k = 0 THEN 0 ELSE Max(NumClasses + k, 0))
        /\ IsTopRanking(topk.indices)
        /\ NamesMatch(topk)

\* The call with one more than the number of classes has returned them all.
C2_Witness ==
    /\ pc = "ranked"
    /\ k = NumClasses + 1
    /\ Len(topk.indices) = NumClasses
    /\ error = "None"

\* Crop b is the window of a at row offset i and column offset j, side
\* 227, pixel for pixel, and the window lies inside a.
IsWindowOf(b, a, i, j) ==
    /\ b.rows.len = 227 /\ b.cols.len = 227
    /\ i + 227 <= a.rows.len /\ j + 227 <= a.cols.len
    /\ \A r \in 0..226 : Index(b.rows, r) = Index(a.rows, i + r)
    /\ \A c \in 0..226 : Index(b.cols, c) = Index(a.cols, j + c)
    /\ b.chan = a.chan

\* Crop b is crop a with its width axis reversed and nothing else changed.
IsHorizontalMirrorOf(b, a) ==
    /\ b.rows.len = a.rows.len /\ b.cols.len = a.cols.len
    /\ \A r \in 0..(a.rows.len - 1) : Index(b.rows, r) = Index(a.rows, r)
    /\ \A c \in 0..(a.cols.len - 1) :
         Index(b.cols, c) = Index(a.cols, a.cols.len - 1 - c)
    /\ b.chan = a.chan

\* Crop b is crop a with its height axis reversed and nothing else changed.
IsVerticalFlipOf(b, a) ==
    /\ b.rows.len = a.rows.len /\ b.cols.len = a.cols.len
    /\ \A r \in 0..(a.rows.len - 1) :
         Index(b.rows, r) = Index(a.rows, a.rows.len - 1 - r)
    /\ \A c \in 0..(a.cols.len - 1) : Index(b.cols, c) = Index(a.cols, c)
    /\ b.chan = a.chan

\* oversample has returned to classify.
Oversampled == pc = "predict"

C3_FlipIsVertical ==
    (Oversampled /\ ~center_only) =>
        /\ Len(images) = 10
        /\ \A i \in 1..5 : IsVerticalFlipOf(images[5 + i], images[i])

\* The offsets of crops 0..4: top-left, top-right, bottom-left,
\* bottom-right, center.
CropOffsets == <<(<<0, 0>>), (<<0, 29>>), (<<29, 0>>), (<<29, 29>>), (<<14, 14>>)>>

\* C4: crops 0..4 of oversample(image, center_only=False) are, in this
\* order, the 227x227 windows of the canonical image at (0, 0), (0, 29),
\* (29, 0), (29, 29) and (14, 14), each inside the 256x256 image.
C4_CropOrder ==
    (Oversampled /\ ~center_only) =>
        /\ Len(images) = 10
        /\ Shape(image) = <<256, 256, 3>>
        /\ \A n \in 1..5 :
             IsWindowOf(images[n], image, CropOffsets[n][1], CropOffsets[n][2])

\* The full batch of a canonical image is there.
C4_Witness ==
    /\ Oversampled /\ ~center_only
    /\ Len(images) = 10
    /\ image.sub # "None"

\* C5: oversample(image, center_only=True) returns one crop, the window at
\* offset (256 - 227) \div 2 = 14 on both axes, not mirrored, which is crop
\* 4 of oversample(image, center_only=False).
C5_CenterOnly ==
    (Oversampled /\ center_only) =>
        /\ Len(images) = 1
        /\ (256 - 227) \div 2 = 14
        /\ IsWindowOf(images[1], image, 14, 14)
        /\ images[1] = oversample(image, FALSE)[5]

\* A center-only batch of a canonical image is there.
C5_Witness ==
    /\ Oversampled /\ center_only
    /\ Len(images) = 1
    /\ image.sub # "None"

\* n is num/den rounded to the nearest integer, halves up.
RoundsTo(n, num, den) ==
    /\ 2 * n * den - den <= 2 * num
    /\ 2 * num < 2 * n * den + den

\* classify is about to subtract the mean: channels fixed, image resized,
\* flipped and cropped.
Normalized == pc = "mean"

\* The images the claim covers: grayscale (2-D), 3-channel, 4-channel.
Covered(in) == in.h >= 1 /\ in.w >= 1 /\ (in.ndim = 2 \/ in.ch \in {3, 4})

\* C6: for a grayscale, 3-channel or 4-channel image the resize sets the
\* shorter side to 256 and the other to round(dim * 256 / other_dim), and
\* the image is exactly 256x256x3 before the mean is subtracted.
C6_CanonicalShape ==
    (Normalized /\ Covered(input)) =>
        /\ IF input.h < input.w
             THEN /\ newshape[1] = 256
                  /\ RoundsTo(newshape[2], input.w * 256, input.h)
             ELSE /\ newshape[2] = 256
                  /\ RoundsTo(newshape[1], input.h * 256, input.w)
        /\ Shape(image) = <<256, 256, 3>>

\* A 3x5 grayscale image: 5 * 256 / 3 = 426.67 is rounded up to 427.
C6_Witness ==
    /\ Normalized
    /\ input = [h |-> 3, w |-> 5, ndim |-> 2, ch |-> 0]
    /\ newshape = <<256, 427>>
    /\ Shape(image) = <<256, 256, 3>>

\* The paths the constructor was called with, defaults resolved.
NetPath == IF args[1] = "" THEN JEFFNET_FILE ELSE args[1]

MetaPath == IF args[2] = "" THEN META_FILE ELSE args[2]

Constructed == pc # "start"

EitherUnreadable == Unreadable(NetPath) \/ Unreadable(MetaPath)

NothingSet == net = "None" /\ label_names = <<>> /\ data_mean = NoMean

\* The status of the first source, network before meta, that cannot be read.
FirstUnreadable ==
    IF Unreadable(NetPath) THEN FileSystem(NetPath).status
    ELSE FileSystem(MetaPath).status

\* C7 as claimed: whenever the weights or the meta source is unreadable
\* (missing or corrupt) the constructor fails with the one load error, the
\* RuntimeError of line 48 that the spec calls ModelLoadError, and
\* predictor, label names and mean image are never set.
C7_LoadErrorAlways ==
    (Constructed /\ EitherUnreadable) =>
        /\ pc = "failed"
        /\ error = "RuntimeError"
        /\ NothingSet

\* C7 as the code has it: whenever either source is unreadable the
\* constructor fails and sets none of predictor, label names and mean
\* image; the error is the RuntimeError when the first unreadable source is
\* a missing file, and the unpickling error itself, not translated, when
\* it is corrupt data.
C7_LoadFails ==
    (Constructed /\ EitherUnreadable) =>
        /\ pc = "failed"
        /\ NothingSet
        /\ (FirstUnreadable = "missing" => error = "RuntimeError")
        /\ (FirstUnreadable = "corrupt" => error \in UnpicklingErrors)

\* The network was read and the meta file is missing: the constructor has
\* failed.
C7_Witness ==
    /\ pc = "failed"
    /\ ~Unreadable(NetPath)
    /\ FileSystem(MetaPath).status = "missing"
    /\ error = "RuntimeError"

\* The float32 value a as an integer multiple of 2^e, e at most a's exponent.
Scaled(a, e) == IF a = FZero THEN 0 ELSE a[1] * Pow2(a[2] - e)

Abs(x) == IF x < 0 THEN 0 - x ELSE x

\* The least exponent of the scores the predictor returns.
MinExp == CHOOSE e \in {v[2] : v \in ScoreVals} :
              \A v \in ScoreVals : e <= v[2]

RECURSIVE ExactColumnSum(_, _, _)
ExactColumnSum(batch, j, n) ==
    IF n = 0 THEN 0
    ELSE ExactColumnSum(batch, j, n - 1) + Scaled(batch[n][j], MinExp)

AllIdentical(batch) == \A n \in 1..Len(batch) : batch[n] = batch[1]

\* classify returns: line 142 runs.
Returning == pc = "aggregate" /\ pc' = "idle"

\* C8 as claimed: the vector classify returns is the arithmetic mean of
\* the N per-crop vectors, and is the per-crop vector itself when all N are
\* identical.
C8_ExactMean ==
    [][Returning =>
        /\ \A j \in 1..NumClasses :
             Len(predictions) * Scaled(scores'[j], MinExp)
                 = ExactColumnSum(predictions, j, Len(predictions))
        /\ (AllIdentical(predictions) => scores' = predictions[1])]_vars

\* C8 as the code has it: the vector classify returns is the float32 mean,
\* the arithmetic mean of the N per-crop vectors up to a relative rounding
\* error of 2^-20 in each entry; it is the predictor's vector itself when
\* N = 1, and within that error of the per-crop vector when all N are
\* identical.
C8_RoundedMean ==
    [][Returning =>
        /\ Len(scores') = NumClasses
        /\ \A j \in 1..NumClasses :
             LET sum == ExactColumnSum(predictions, j, Len(predictions))
             IN  Abs(Len(predictions) * Scaled(scores'[j], MinExp) - sum)
                     <= sum \div Pow2(20)
        /\ (Len(predictions) = 1 => scores' = predictions[1])
        /\ (AllIdentical(predictions) =>
              \A j \in 1..NumClasses :
                 LET x == Scaled(predictions[1][j], MinExp)
                 IN  Abs(Scaled(scores'[j], MinExp) - x) <= x \div Pow2(20))]_vars

\* classify has returned the mean of ten score vectors that are all 0.1 in
\* their first entry: the float32 next above 0.1.
C8_Witness ==
    /\ pc = "idle"
    /\ scores # <<>>
    /\ scores[1] = <<13421774, -27>>

\* C9: once a JeffNet is constructed no call changes its mean image, its
\* label names or its network: classify, classify_direct, oversample and
\* top_k_prediction leave the model as it was loaded.
C9_ModelNeverMutated ==
    [][Constructed =>
        /\ data_mean' = data_mean
        /\ label_names' = label_names
        /\ net' = net]_vars

\* A classification and a ranking later the model loaded from alt.meta is
\* there.
C9_Witness ==
    /\ pc = "ranked"
    /\ data_mean = ToDecaf("altmean")
    /\ label_names = LabelsOf("alt")
    /\ net = "jeffnet"

\* The stages of one classification by number; normalize is 1 to 6.
StageNo(p) ==
    CASE p = "idle" -> 0
      [] p = "resize" -> 1
      [] p = "rescale" -> 2
      [] p = "flip" -> 3
      [] p = "crop" -> 4
      [] p = "mean" -> 5
      [] p = "oversample" -> 6
      [] p = "predict" -> 7
      [] p = "aggregate" -> 8
      [] OTHER -> 9

\* The image as normalize has it at each of its steps.
NormalizeOrder ==
    /\ (pc = "rescale" =>
          Shape(image) = <<newshape[1], newshape[2], 3>> \/ input.ch = 1)
    /\ (pc = "flip" => image.scale = "byte" /\ image.rows = Arange(newshape[1]))
    /\ (pc = "crop" => image.rows = ReverseAxis(Arange(newshape[1])))
    /\ (pc = "mean" =>
          /\ image.sub = "None"
          /\ \A r \in 0..(image.rows.len - 1) :
               Index(image.rows, r)
                   = newshape[1] - 1 - ((newshape[1] - 256) \div 2 + r))
    /\ (pc \in {"oversample", "predict", "aggregate"} => image.sub = data_mean.id)

\* C10: a classification runs normalize, oversample, predict, aggregate
\* and rank one after the other, each stage starting when the one before
\* has finished; the predictor is invoked once per call, on the
\* oversampled batch; and normalize flips after the resize and before the
\* center crop, and subtracts the mean last.
C10_Sequential ==
    [][/\ (pc' # pc /\ StageNo(pc') \in 1..8 => StageNo(pc') = StageNo(pc) + 1)
       /\ (pc' = "ranked" => pc = "idle" /\ scores # <<>>)
       /\ (scores' # scores /\ scores' # <<>> => pc = "aggregate")
       /\ (npredict' # npredict /\ npredict' # 0 =>
             /\ pc = "predict" /\ npredict = 0
             /\ images = oversample(image, center_only)
             /\ Len(predictions') = Len(images))
       /\ (pc = "aggregate" => npredict = 1)
       /\ NormalizeOrder
       /\ NormalizeOrder']_vars

\* A resized image of odd height, 341 rows, where a flip after the crop
\* would keep other rows than a flip before it.
C10_Witness ==
    /\ pc = "mean"
    /\ newshape = <<341, 256>>
    /\ Index(image.rows, 0) = 298

====
